---------------------------- MODULE Spec2Model ----------------------------
(***************************************************************************)
(* A model of src/src/server.cpp: a thread-per-connection HTTP/1.1 server. *)
(* Text is a sequence of one-character strings, so that the marker         *)
(* searches, the substring slicing and the response formatting of the      *)
(* source are computed character by character.                             *)
(***************************************************************************)
EXTENDS Integers, Sequences, FiniteSets, TLC

(***************************************************************************)
(* Characters with a name of their own.                                    *)
(***************************************************************************)
CR == "\r"
LF == "\n"
SP == " "
\* The zero byte: it ends a C string (buffer.data() at server.cpp:237).
NUL == "NUL"

CRLF == <<CR, LF>>

HTTP200 ==
    <<"H", "T", "T", "P", "/", "1", ".", "1", SP, "2", "0", "0", SP, "O", "K">> \o CRLF
HTTP201 ==
    <<"H", "T", "T", "P", "/", "1", ".", "1", SP, "2", "0", "1", SP, "C", "r", "e", "a", "t",
      "e", "d">> \o CRLF
HTTP400 ==
    <<"H", "T", "T", "P", "/", "1", ".", "1", SP, "4", "0", "0", SP, "B", "a", "d", SP, "R",
      "e", "q", "u", "e", "s", "t">> \o CRLF
HTTP404 ==
    <<"H", "T", "T", "P", "/", "1", ".", "1", SP, "4", "0", "4", SP, "N", "o", "t", SP, "F",
      "o", "u", "n", "d">> \o CRLF
HTTP414 ==
    <<"H", "T", "T", "P", "/", "1", ".", "1", SP, "4", "1", "4", SP, "U", "R", "I", SP, "T",
      "o", "o", SP, "L", "o", "n", "g">> \o CRLF
HTTP500 ==
    <<"H", "T", "T", "P", "/", "1", ".", "1", SP, "5", "0", "0", SP, "I", "n", "t", "e", "r",
      "n", "a", "l", SP, "S", "e", "r", "v", "e", "r", SP, "E", "r", "r", "o", "r">> \o CRLF
HTTP501 ==
    <<"H", "T", "T", "P", "/", "1", ".", "1", SP, "5", "0", "1", SP, "N", "o", "t", SP, "I",
      "m", "p", "l", "e", "m", "e", "n", "t", "e", "d">> \o CRLF

ContentTypeHdr ==
    <<"C", "o", "n", "t", "e", "n", "t", "-", "T", "y", "p", "e", ":", SP>>
ContentLengthHdr ==
    <<"C", "o", "n", "t", "e", "n", "t", "-", "L", "e", "n", "g", "t", "h", ":", SP>>
TextPlain ==
    <<"t", "e", "x", "t", "/", "p", "l", "a", "i", "n">>
OctetStream ==
    <<"a", "p", "p", "l", "i", "c", "a", "t", "i", "o", "n", "/", "o", "c", "t", "e", "t", "-",
      "s", "t", "r", "e", "a", "m">>
UserAgentMarker ==
    <<CR, LF, "U", "s", "e", "r", "-", "A", "g", "e", "n", "t", ":", SP>>
EchoPrefix == <<"e", "c", "h", "o", "/">>
UserAgentPrefix == <<"u", "s", "e", "r", "-", "a", "g", "e", "n", "t">>
FilesPrefix == <<"f", "i", "l", "e", "s", "/">>
GET == <<"G", "E", "T">>
POST == <<"P", "O", "S", "T">>

\* The size of the receive buffer, std::array<char, 1024>.
BufferSize == 1024

(***************************************************************************)
(* std::string.  A std::size_t is 64 bits wide and its arithmetic wraps;   *)
(* a value is held here by its representative in -2^63 .. 2^63-1, so that  *)
(* std::string::npos, 2^64-1, is -1 and npos + i is i - 1.  Every other    *)
(* size of the model is far below 2^31.  Unsigned order is UGreater.       *)
(***************************************************************************)
NPOS == -1

UGreater(a, b) ==
    IF a < 0 THEN (b >= 0 \/ a > b) ELSE (b >= 0 /\ a > b)

\* What an uncaught std::out_of_range is returned as: no text, since every
\* element of a text is a one-character string or NUL.
OutOfRange == <<"std::out_of_range">>

\* s.find(m): the least position (from 0) where m occurs in s, or npos.
Find(s, m) ==
    LET hits == {p \in 0..(Len(s) - Len(m)) : SubSeq(s, p + 1, p + Len(m)) = m}
    IN  IF hits = {} THEN NPOS ELSE CHOOSE p \in hits : \A q \in hits : p <= q

\* s.find_first_of(c) for a one-character set.
FindFirstOf(s, c) == Find(s, <<c>>)

\* s.find_last_of(c) for a one-character set.
FindLastOf(s, c) ==
    LET hits == {p \in 0..(Len(s) - 1) : s[p + 1] = c}
    IN  IF hits = {} THEN NPOS ELSE CHOOSE p \in hits : \A q \in hits : p >= q

\* s.substr(pos, n): throws when pos > s.size(); n is cut to what is left.
Substr(s, pos, n) ==
    IF UGreater(pos, Len(s)) THEN OutOfRange
    ELSE LET rest == Len(s) - pos
             cnt == IF UGreater(n, rest) THEN rest ELSE n
         IN  SubSeq(s, pos + 1, pos + cnt)

\* s.substr(0, n) == prefix, as the dispatch compares it.
StartsWith(s, prefix) == Substr(s, 0, Len(prefix)) = prefix

RECURSIVE to_string(_)
\* std::to_string of a non-negative number: its decimal digits.
to_string(n) ==
    LET digit == <<"0", "1", "2", "3", "4", "5", "6", "7", "8", "9">>[(n % 10) + 1]
    IN  IF n < 10 THEN <<digit>> ELSE to_string(n \div 10) \o <<digit>>

(***************************************************************************)
(* The request parser.                                                     *)
(***************************************************************************)
parseBetween(s, firstMarker, secondMarker) ==
    LET i == Len(firstMarker)
        pos == Find(s, firstMarker)
        suffix == Substr(s, pos + i, NPOS)
    IN  IF suffix = OutOfRange THEN OutOfRange
        ELSE Substr(s, pos + i, Find(suffix, secondMarker))

parseFromThisToEnd(s, firstMarker) ==
    LET i == Len(firstMarker)
        pos == Find(s, firstMarker)
    IN  Substr(s, pos + i, Len(s))

\* getPath with the space alone as its first marker: the slash is kept.
getPathKeepsSlash(requestContents) == parseBetween(requestContents, <<SP>>, <<SP>>)

getPath(requestContents) == parseBetween(requestContents, <<SP, "/">>, <<SP>>)

getMethod(requestContents) == parseBetween(requestContents, <<>>, <<SP>>)

(***************************************************************************)
(* The responses that read no file.                                        *)
(***************************************************************************)
\* The header block and body shared by the 200 responses that carry a body.
OkResponse(contentType, body) ==
    HTTP200 \o ContentTypeHdr \o contentType \o CRLF
            \o ContentLengthHdr \o to_string(Len(body)) \o CRLF
            \o CRLF \o body

\* formulateEchoResponse with the slice one short: the body keeps the slash.
formulateEchoResponseKeepsSlash(path) ==
    LET body == Substr(<<"/">> \o path, 5, NPOS)
    IN  IF body = OutOfRange THEN OutOfRange ELSE OkResponse(TextPlain, body)

formulateEchoResponse(path) ==
    LET body == Substr(<<"/">> \o path, 6, NPOS)
    IN  IF body = OutOfRange THEN OutOfRange ELSE OkResponse(TextPlain, body)

formulateUserAgentResponse(requestContents) ==
    LET body == parseBetween(requestContents, UserAgentMarker, CRLF)
    IN  IF body = OutOfRange THEN OutOfRange ELSE OkResponse(TextPlain, body)

\* getFileExtension cutting at the first dot of the file name.
getFileExtensionFirstDot(validPath) ==
    LET found == FindLastOf(validPath, "/")
        file == Substr(validPath, found + 1, NPOS)
        found2 == FindFirstOf(file, ".")
    IN  IF found2 = NPOS THEN <<>> ELSE Substr(file, found2 + 1, NPOS)

getFileExtension(validPath) ==
    LET found == FindLastOf(validPath, "/")
        file == Substr(validPath, found + 1, NPOS)
        found2 == FindLastOf(file, ".")
    IN  IF found2 = NPOS THEN <<>> ELSE Substr(file, found2 + 1, NPOS)

defaultContentType(fileExtension) ==
    IF fileExtension = <<"b", "m", "p">>
      THEN <<"i", "m", "a", "g", "e", "/", "b", "m", "p">> ELSE
    IF fileExtension = <<"c", "s", "s">>
      THEN <<"t", "e", "x", "t", "/", "c", "s", "s">> ELSE
    IF fileExtension = <<"c", "s", "v">>
      THEN <<"t", "e", "x", "t", "/", "c", "s", "v">> ELSE
    IF fileExtension = <<"g", "i", "f">>
      THEN <<"i", "m", "a", "g", "e", "/", "g", "i", "f">> ELSE
    IF fileExtension = <<"h", "t", "m">> \/ fileExtension = <<"h", "t", "m", "l">>
      THEN <<"t", "e", "x", "t", "/", "h", "t", "m", "l">> ELSE
    IF fileExtension = <<"i", "c", "o">>
      THEN <<"i", "m", "a", "g", "e", "/", "v", "n", "d", ".", "m", "i", "c", "r", "o", "s",
             "o", "f", "t", ".", "i", "c", "o", "n">> ELSE
    IF fileExtension = <<"j", "p", "g">> \/ fileExtension = <<"j", "p", "e", "g">>
      THEN <<"i", "m", "a", "g", "e", "/", "j", "p", "e", "g">> ELSE
    IF fileExtension = <<"j", "s">>
      THEN <<"t", "e", "x", "t", "/", "j", "a", "v", "a", "s", "c", "r", "i", "p", "t">> ELSE
    IF fileExtension = <<"j", "s", "o", "n">>
      THEN <<"a", "p", "p", "l", "i", "c", "a", "t", "i", "o", "n", "/", "j", "s", "o", "n">> ELSE
    IF fileExtension = <<"p", "n", "g">>
      THEN <<"i", "m", "a", "g", "e", "/", "p", "n", "g">> ELSE
    IF fileExtension = <<"p", "d", "f">>
      THEN <<"a", "p", "p", "l", "i", "c", "a", "t", "i", "o", "n", "/", "p", "d", "f">> ELSE
    IF fileExtension = <<"p", "h", "p">>
      THEN <<"a", "p", "p", "l", "i", "c", "a", "t", "i", "o", "n", "/", "x", "-", "h", "t",
             "t", "p", "d", "-", "p", "h", "p">> ELSE
    IF fileExtension = <<"s", "v", "g">>
      THEN <<"i", "m", "a", "g", "e", "/", "s", "v", "g", "+", "x", "m", "l">> ELSE
    IF fileExtension = <<"t", "i", "f">> \/ fileExtension = <<"t", "i", "f", "f">>
      THEN <<"i", "m", "a", "g", "e", "/", "t", "i", "f", "f">> ELSE
    IF fileExtension = <<"t", "x", "t">>
      THEN <<"t", "e", "x", "t", "/", "p", "l", "a", "i", "n">>
      ELSE OctetStream

(***************************************************************************)
(* The filesystem the server's streams and mkdir act on.  A node is named  *)
(* by its canonical path, the sequence of its components' names; fs.dirs   *)
(* is the set of directories and fs.files maps each regular file to its    *)
(* bytes.  Nothing in the program removes or renames a node.               *)
(***************************************************************************)
Root == <<>>

\* The working directory of the server process, /srv.
Cwd == <<(<<"s", "r", "v">>)>>

RECURSIVE SplitPath(_)
\* The components of a path name, the text between its slashes.
SplitPath(s) ==
    LET p == Find(s, <<"/">>)
    IN  IF p = NPOS THEN <<s>>
        ELSE <<SubSeq(s, 1, p)>> \o SplitPath(SubSeq(s, p + 2, Len(s)))

Parent(node) == IF node = Root THEN Root ELSE SubSeq(node, 1, Len(node) - 1)

RECURSIVE Walk(_, _, _)
\* Path resolution from the directory cur: "file", "dir" or "new" (the last
\* component names nothing in an existing directory) with the node, or
\* "fail" (a component is missing or is no directory).
Walk(f, cur, comps) ==
    IF comps = <<>> THEN [st |-> "dir", node |-> cur]
    ELSE LET c == Head(comps)
             n == Append(cur, c)
         IN  IF c = <<>> \/ c = <<".">> THEN Walk(f, cur, Tail(comps))
             ELSE IF c = <<".", ".">> THEN Walk(f, Parent(cur), Tail(comps))
             ELSE IF n \in f.dirs THEN Walk(f, n, Tail(comps))
             ELSE IF Tail(comps) # <<>> THEN [st |-> "fail", node |-> n]
             ELSE IF n \in DOMAIN f.files THEN [st |-> "file", node |-> n]
             ELSE [st |-> "new", node |-> n]

\* What a path name leads to; the empty name leads nowhere (ENOENT).
Resolve(f, path) ==
    IF path = <<>> THEN [st |-> "fail", node |-> Root]
    ELSE Walk(f, IF path[1] = "/" THEN Root ELSE Cwd, SplitPath(path))

RECURSIVE StripSlashes(_)
StripSlashes(path) ==
    IF Len(path) > 1 /\ path[Len(path)] = "/"
    THEN StripSlashes(SubSeq(path, 1, Len(path) - 1))
    ELSE path

\* mkdir(directory, 0777): makes the directory when it names nothing in an
\* existing directory, and otherwise fails and changes nothing.
Mkdir(f, path) ==
    LET r == Resolve(f, StripSlashes(path))
    IN  IF r.st = "new" THEN [f EXCEPT !.dirs = @ \cup {r.node}] ELSE f

\* std::ifstream file(path); file.good(): a file or a directory opens for
\* reading.
OpensForReading(f, path) == Resolve(f, path).st \in {"file", "dir"}

\* std::ofstream file(path); file.good(): an existing file, or a new name
\* in an existing directory, opens for writing.
OpensForWriting(f, path) == Resolve(f, path).st \in {"file", "new"}

\* The filesystem after std::ofstream file(path) opened: the file exists
\* and is empty.
Truncate(f, path) ==
    LET n == Resolve(f, path).node
    IN  [f EXCEPT !.files =
            [p \in DOMAIN f.files \cup {n} |-> IF p = n THEN <<>> ELSE f.files[p]]]

\* The filesystem after the stream wrote data at its offset 0 into node n.
WriteAtStart(f, n, data) ==
    LET old == f.files[n]
    IN  [f EXCEPT !.files[n] = data \o SubSeq(old, Len(data) + 1, Len(old))]

(***************************************************************************)
(* The file routes.                                                        *)
(***************************************************************************)
\* The part of isValidFilePath that reads no file: find_first_of("/") cut
\* to an int and compared, as an unsigned number, with path.size().
HasNoSlash(path) == UGreater(FindFirstOf(path, "/"), Len(path))

\* isValidFilePath without its first test: any path that opens is valid.
isValidFilePathOpensOnly(f, path) == OpensForReading(f, path)

isValidFilePath(f, path) ==
    IF HasNoSlash(path) THEN FALSE ELSE OpensForReading(f, path)

RECURSIVE ReadLines(_, _)
\* The loop of fetchFileContents on a stream that is good: each getline
\* takes the bytes up to the next newline, or up to the end of the file,
\* where the stream stops being good; the line and a newline are appended.
ReadLines(data, contents) ==
    LET nl == Find(data, <<LF>>)
    IN  IF nl = NPOS THEN contents \o data \o <<LF>>
        ELSE ReadLines(SubSeq(data, nl + 2, Len(data)),
                       contents \o SubSeq(data, 1, nl) \o <<LF>>)

\* contents as the loop leaves it: nothing when the stream did not open, one
\* newline when the first read fails (a directory), else the lines read.
ReadContents(f, path) ==
    LET r == Resolve(f, path)
    IN  IF r.st = "file" THEN ReadLines(f.files[r.node], <<>>)
        ELSE IF r.st = "dir" THEN <<LF>>
        ELSE <<>>

fetchFileContents(f, path, contentType) ==
    LET contents == ReadContents(f, path)
    IN  OkResponse(contentType, Substr(contents, 0, Len(contents) - 1))

\* The path codeCraftersGetFile reads: the directory and the rest of the
\* request path, one after the other.
GetFilePath(path, directory) == directory \o Substr(path, 6, Len(path))

\* The path storeFile writes.
StorePath(path, directory) ==
    IF directory = <<>> THEN directory \o Substr(path, 6, Len(path))
    ELSE directory \o <<"/">> \o Substr(path, 6, Len(path))

(***************************************************************************)
(* The clients' messages.  A message keeps, beside the bytes sent (raw),   *)
(* the parts it was put together from; the server reads raw alone.         *)
(***************************************************************************)
HttpVersion == <<"H", "T", "T", "P", "/", "1", ".", "1">>

Request(method, target, headers, body) ==
    [wf |-> TRUE, method |-> method, target |-> target, headers |-> headers,
     body |-> body,
     raw |-> method \o <<SP, "/">> \o target \o <<SP>> \o HttpVersion \o CRLF
             \o headers \o CRLF \o body]

\* Bytes that are no request line followed by a blank line.
Bytes(raw) ==
    [wf |-> FALSE, method |-> <<>>, target |-> <<>>, headers |-> <<>>,
     body |-> <<>>, raw |-> raw]

NoMessage == Bytes(<<>>)

UserAgentCurl ==
    <<"U", "s", "e", "r", "-", "A", "g", "e", "n", "t", ":", SP, "c", "u", "r", "l", CR, LF>>
HostHeader == <<"H", "o", "s", "t", ":", SP, "h", CR, LF>>
Hello == <<"h", "e", "l", "l", "o">>

\* How far a message may exceed the receive buffer.
MaxExcess == 40

\* n bytes of filling.
Filling(n) == [i \in 1..n |-> "a"]

FileNames == {<<"a">>, <<"n">>, <<"z">>, <<"q">>, <<>>, <<".", ".", "/", "e">>}

GetRequests ==
    {Request(GET, t, <<>>, <<>>) :
        t \in {<<>>, EchoPrefix \o <<"a", "b", "c">>, EchoPrefix, UserAgentPrefix,
               EchoPrefix \o <<"%", "2", "0", "/", "x">>,
               <<"p", "u", "b", "/", "i", ".", "h", "t", "m", "l">>,
               <<"p", "u", "b", "/", "n", "o", "n", "e">>, <<"a">>,
               <<"p", "u", "b", "/">>, <<"/", "e">>}}
    \cup {Request(GET, FilesPrefix \o name, <<>>, <<>>) : name \in FileNames}
    \cup {Request(GET, UserAgentPrefix, h, <<>>) :
            h \in {UserAgentCurl, HostHeader, HostHeader \o UserAgentCurl}}
    \cup {Request(GET, EchoPrefix \o <<"a", "b">>, UserAgentCurl, <<>>)}

PostRequests ==
    {Request(POST, FilesPrefix \o <<"a">>, <<>>, b) :
        b \in {Hello, <<"h", "i">>, <<>>, <<"x", LF>>, <<"h", NUL, "i">>}}
    \cup {Request(POST, FilesPrefix \o <<"a">>, HostHeader, Hello),
          Request(POST, FilesPrefix \o <<"q">>, <<>>, <<"x", LF>>),
          Request(POST, FilesPrefix, <<>>, <<"x">>),
          Request(POST, <<"o", "t", "h", "e", "r">>, <<>>, Hello),
          Request(POST, <<>>, <<>>, <<>>)}

OtherRequests ==
    {Request(<<"H", "E", "A", "D">>, <<>>, <<>>, <<>>),
     Request(<<"P", "U", "T">>, FilesPrefix \o <<"a">>, <<>>, Hello),
     Request(<<"D", "E", "L", "E", "T", "E">>, FilesPrefix \o <<"a">>, <<>>, <<>>),
     Request(<<"g", "e", "t">>, EchoPrefix \o <<"a">>, <<>>, <<>>)}

\* Zero bytes, bytes with no space, a request line alone, and a POST cut
\* before its blank line.
OddMessages ==
    {Bytes(<<>>), Bytes(<<"a", "b", "c">>), Bytes(<<"G", "E", "T", SP>>),
     Bytes(<<NUL, "G", "E", "T">>),
     Bytes(<<"P", "O", "S", "T", SP, "/", "f", "i", "l", "e", "s", "/", "a", SP, "H", "T",
             "T", "P", "/", "1", ".", "1", CR, LF>>)}

\* Messages that do not fit the receive buffer.
LargeMessages ==
    {Request(GET, EchoPrefix \o Filling(BufferSize + MaxExcess), <<>>, <<>>),
     Request(POST, FilesPrefix \o <<"a">>, <<>>, Filling(BufferSize + MaxExcess)),
     Request(GET, EchoPrefix \o <<"a", "b">>, <<>>, <<NUL>> \o Filling(BufferSize + MaxExcess)),
     Request(<<"P", "U", "T">>, Filling(BufferSize + MaxExcess), <<>>, <<>>)}

Messages == GetRequests \cup PostRequests \cup OtherRequests \cup OddMessages
            \cup LargeMessages

\* The messages of the clients that connect at the same time.
OverlappingMessages ==
    {Request(POST, FilesPrefix \o <<"a">>, <<>>, b) : b \in {Hello, <<"h", "i">>}}
    \cup {Request(GET, FilesPrefix \o <<"a">>, <<>>, <<>>), Bytes(<<>>)}

\* The values of the --directory argument; the empty one is the default.
Directories ==
    {<<>>, <<"/", "d">>, <<"/", "d", "/">>, <<"/", "n", "/">>, <<"/", "x", "/", "y">>}

\* The messages clients send: every message when they connect one after the
\* other, each after the connection before it was closed; a few when their
\* connections overlap.
ClientMessages(overlapping) ==
    IF overlapping THEN OverlappingMessages ELSE Messages

\* The directories the server is started with in the runs checked.
ClientDirectories(overlapping) ==
    IF overlapping THEN {<<"/", "d", "/">>} ELSE Directories

\* The filesystem when the server starts.
InitialFs ==
    [dirs |-> {Root, <<(<<"d">>)>>, Cwd, Cwd \o <<(<<"p", "u", "b">>)>>},
     files |->
        (<< <<"d">>, <<"a">> >> :> <<"h", "i">>)
        @@ (<< <<"d">>, <<"n">> >> :> <<"x", LF, "y", LF>>)
        @@ (<< <<"d">>, <<"z">> >> :> <<>>)
        @@ (<< <<"d", "a">> >> :> <<"s", "i", "b">>)
        @@ (<< <<"e">> >> :> <<"s", "e", "c", "r", "e", "t">>)
        @@ (Cwd \o << <<"a">> >> :> <<"c", "w", "d">>)
        @@ (Cwd \o << <<"p", "u", "b">>, <<"i", ".", "h", "t", "m", "l">> >>
              :> <<"<", "p", ">", LF>>)]

\* The number of connections the server accepts in a run.
MaxConns == 2

Conns == 1..MaxConns

\* What follows the buffer in memory, when the bytes received fill it and
\* hold no zero byte: buffer.data() is then read past its end.
OverRead == {<<>>, <<"x">>, <<SP>>}

\* The outcome of a read past the buffer that ends the process.
Fault == <<"SIGSEGV">>

(***************************************************************************)
(* The state.                                                              *)
(***************************************************************************)
VARIABLES
    directory,  \* main's directory: argv[2], or empty
    overlap,    \* the clients' connections may overlap
    fs,         \* the filesystem
    conn,       \* per connection: the handler thread's position and locals
    running,    \* the process has not been terminated
    lastPost    \* the last POST that stored a file, the target of the one
                \* before it, and the count of stores

vars == <<directory, overlap, fs, conn, running, lastPost>>

\* A connection not yet accepted.
Idle ==
    [pc |-> "idle", sent |-> NoMessage, bytes_received |-> 0,
     requestContents |-> <<>>, path |-> <<>>, method |-> <<>>,
     response |-> <<>>, route |-> "none", file |-> <<>>, node |-> Root,
     data |-> <<>>, contentType |-> <<>>, sends |-> 0, sendOk |-> FALSE,
     wire |-> <<>>, closes |-> 0, stores |-> 0]

Init ==
    /\ overlap \in BOOLEAN
    /\ directory \in ClientDirectories(overlap)
    /\ fs = InitialFs
    /\ conn = [c \in Conns |-> Idle]
    /\ running = TRUE
    /\ lastPost = [count |-> 0, msg |-> NoMessage, prev |-> <<>>]

(***************************************************************************)
(* main's loop: accept a connection and start its handler thread.          *)
(***************************************************************************)
Accept(c) ==
    /\ running
    /\ conn[c].pc = "idle"
    /\ \A d \in Conns : d < c => conn[d].pc # "idle"
    /\ overlap \/ \A d \in Conns : conn[d].pc \in {"idle", "closed"}
    /\ \E m \in ClientMessages(overlap) :
          conn' = [conn EXCEPT ![c] =
                      [Idle EXCEPT !.pc = "recv", !.sent = m,
                                   !.stores = lastPost.count]]
    /\ UNCHANGED <<directory, overlap, fs, running, lastPost>>

(***************************************************************************)
(* handleClient.                                                           *)
(***************************************************************************)
\* bytes_received: recv fills at most the buffer.
BytesReceived(m) == IF Len(m) < BufferSize THEN Len(m) ELSE BufferSize

\* The values std::string requestContents = buffer.data() can take: the
\* bytes before the first zero byte of the zero-filled buffer.
RequestContents(m) ==
    LET b == SubSeq(m, 1, BytesReceived(m))
        z == Find(b, <<NUL>>)
    IN  IF z # NPOS THEN {SubSeq(b, 1, z)}
        ELSE IF Len(b) < BufferSize THEN {b}
        ELSE {b \o g : g \in OverRead} \cup {Fault}

\* recv fails: the connection is closed and the handler returns.
RecvFail(c) ==
    /\ running
    /\ conn[c].pc = "recv"
    /\ conn' = [conn EXCEPT ![c] = [Idle EXCEPT !.pc = "closed", !.closes = 1,
                                                 !.bytes_received = -1]]
    /\ UNCHANGED <<directory, overlap, fs, running, lastPost>>

\* recv returns: the 414 test, the buffer read as a C string, getPath and
\* getMethod.  An exception that nothing catches ends the process.
Recv(c) ==
    /\ running
    /\ conn[c].pc = "recv"
    /\ \E rc \in RequestContents(conn[c].sent.raw) :
          LET n == BytesReceived(conn[c].sent.raw)
              path == getPath(rc)
              method == getMethod(rc)
          IN  IF rc = Fault \/ path = OutOfRange \/ method = OutOfRange
              THEN /\ running' = FALSE
                   /\ conn' = [conn EXCEPT ![c].pc = "terminated",
                                           ![c].bytes_received = n]
              ELSE /\ running' = running
                   /\ conn' = [conn EXCEPT
                         ![c].pc = "dispatch",
                         ![c].bytes_received = n,
                         ![c].response =
                             IF UGreater(n, BufferSize) THEN HTTP414 \o CRLF ELSE <<>>,
                         ![c].requestContents = rc,
                         ![c].path = path,
                         ![c].method = method]
    /\ UNCHANGED <<directory, overlap, fs, lastPost>>

\* The if-else chain of handleClient, up to the first use of a file.
Dispatch(c) ==
    LET h == conn[c]
        done(route, response) ==
            IF response = OutOfRange
            THEN /\ running' = FALSE
                 /\ conn' = [conn EXCEPT ![c].pc = "terminated", ![c].route = route]
            ELSE /\ running' = running
                 /\ conn' = [conn EXCEPT ![c].pc = "send", ![c].route = route,
                                         ![c].response = response]
        file(route, pc, path) ==
            /\ running' = running
            /\ conn' = [conn EXCEPT ![c].pc = pc, ![c].route = route,
                                    ![c].file = path]
    IN  /\ running
        /\ h.pc = "dispatch"
        /\ IF h.response # <<>> THEN done("none", h.response)
           ELSE IF h.method = GET THEN
                IF h.path = <<>> THEN done("root", HTTP200 \o CRLF)
                ELSE IF StartsWith(h.path, EchoPrefix)
                  THEN done("echo", formulateEchoResponse(h.path))
                ELSE IF StartsWith(h.path, UserAgentPrefix)
                  THEN done("user-agent", formulateUserAgentResponse(h.requestContents))
                ELSE IF StartsWith(h.path, FilesPrefix)
                  THEN file("files", "valid", GetFilePath(h.path, directory))
                ELSE file("generic", "valid", h.path)
           ELSE IF h.method = POST THEN
                IF StartsWith(h.path, FilesPrefix)
                  THEN file("store", "mkdir", StorePath(h.path, directory))
                ELSE done("not-implemented", HTTP501 \o CRLF)
           ELSE done("none", h.response)
        /\ UNCHANGED <<directory, overlap, fs, lastPost>>

\* isValidFilePath, of codeCraftersGetFile and of the generic fetch.
CheckValid(c) ==
    /\ running
    /\ conn[c].pc = "valid"
    /\ conn' = IF isValidFilePath(fs, conn[c].file)
               THEN [conn EXCEPT ![c].pc = "fetch"]
               ELSE [conn EXCEPT ![c].pc = "send", ![c].response = HTTP404 \o CRLF]
    /\ UNCHANGED <<directory, overlap, fs, running, lastPost>>

\* The content type of a fetch: fixed for files/, by extension otherwise.
ContentType(h) ==
    IF h.route = "files" THEN OctetStream
    ELSE defaultContentType(getFileExtension(h.file))

\* The fetch through a stream that is opened for writing as well, which
\* empties the file.
FetchTruncates(c) ==
    /\ running
    /\ conn[c].pc = "fetch"
    /\ fs' = IF Resolve(fs, conn[c].file).st = "file" THEN Truncate(fs, conn[c].file) ELSE fs
    /\ conn' = [conn EXCEPT
          ![c].pc = "send",
          ![c].contentType = ContentType(conn[c]),
          ![c].response = fetchFileContents(fs, conn[c].file, ContentType(conn[c]))]
    /\ UNCHANGED <<directory, overlap, running, lastPost>>

Fetch(c) ==
    /\ running
    /\ conn[c].pc = "fetch"
    /\ conn' = [conn EXCEPT
          ![c].pc = "send",
          ![c].contentType = ContentType(conn[c]),
          ![c].response = fetchFileContents(fs, conn[c].file, ContentType(conn[c]))]
    /\ UNCHANGED <<directory, overlap, fs, running, lastPost>>

\* storeFile: mkdir(directory, 0777).
StoreMkdir(c) ==
    /\ running
    /\ conn[c].pc = "mkdir"
    /\ fs' = Mkdir(fs, directory)
    /\ conn' = [conn EXCEPT ![c].pc = "open"]
    /\ UNCHANGED <<directory, overlap, running, lastPost>>

\* storeFile: the stream is opened, which empties the file, and the body is
\* cut from the request.
StoreOpen(c) ==
    LET h == conn[c]
        data == parseFromThisToEnd(h.requestContents, CRLF \o CRLF)
    IN  /\ running
        /\ h.pc = "open"
        /\ IF ~OpensForWriting(fs, h.file)
           THEN /\ conn' = [conn EXCEPT ![c].pc = "send",
                                        ![c].response = HTTP500 \o CRLF]
                /\ UNCHANGED <<fs, running>>
           ELSE /\ fs' = Truncate(fs, h.file)
                /\ IF data = OutOfRange
                   THEN /\ running' = FALSE
                        /\ conn' = [conn EXCEPT ![c].pc = "terminated"]
                   ELSE /\ running' = running
                        /\ conn' = [conn EXCEPT ![c].pc = "write",
                                                ![c].node = Resolve(fs, h.file).node,
                                                ![c].data = data]
        /\ UNCHANGED <<directory, overlap, lastPost>>

\* storeFile: the stream writes the body when it is destroyed, and the
\* handler answers 201.
StoreWrite(c) ==
    /\ running
    /\ conn[c].pc = "write"
    /\ fs' = WriteAtStart(fs, conn[c].node, conn[c].data)
    /\ conn' = [conn EXCEPT ![c].pc = "send", ![c].response = HTTP201 \o CRLF]
    /\ lastPost' = [count |-> lastPost.count + 1, msg |-> conn[c].sent,
                    prev |-> lastPost.msg.target]
    /\ UNCHANGED <<directory, overlap, running>>

\* send that is called again after it failed.
SendRetriesOnFailure(c) ==
    /\ running
    /\ conn[c].pc = "send"
    /\ conn[c].sends < 2
    /\ \E ok \in BOOLEAN :
          conn' = [conn EXCEPT ![c].pc = IF ok THEN "close" ELSE "send",
                               ![c].sends = @ + 1,
                               ![c].sendOk = ok,
                               ![c].wire = IF ok THEN conn[c].response ELSE <<>>]
    /\ UNCHANGED <<directory, overlap, fs, running, lastPost>>

\* send: the response goes out, or send fails and only a message is logged.
Send(c) ==
    /\ running
    /\ conn[c].pc = "send"
    /\ \E ok \in BOOLEAN :
          conn' = [conn EXCEPT ![c].pc = "close", ![c].sends = @ + 1,
                               ![c].sendOk = ok,
                               ![c].wire = IF ok THEN conn[c].response ELSE <<>>]
    /\ UNCHANGED <<directory, overlap, fs, running, lastPost>>

\* close(client_fd); the handler returns and its locals are gone.
Close(c) ==
    /\ running
    /\ conn[c].pc = "close"
    /\ conn' = [conn EXCEPT ![c] = [Idle EXCEPT !.pc = "closed",
                                                 !.closes = conn[c].closes + 1]]
    /\ UNCHANGED <<directory, overlap, fs, running, lastPost>>

Next ==
    \E c \in Conns :
        \/ Accept(c)
        \/ RecvFail(c)
        \/ Recv(c)
        \/ Dispatch(c)
        \/ CheckValid(c)
        \/ Fetch(c)
        \/ StoreMkdir(c)
        \/ StoreOpen(c)
        \/ StoreWrite(c)
        \/ Send(c)
        \/ Close(c)

Spec == Init /\ [][Next]_vars

(***************************************************************************)
(* The parser and the content type on their own: the handler's calls       *)
(* getPath and getMethod on any request contents, and the generic fetch's  *)
(* defaultContentType(getFileExtension(path)) on any path.                 *)
(***************************************************************************)
\* The length of the request contents tried, before any CRLF.
MaxLine == 5

\* All texts of at most n characters of the set A.
Strings(A, n) == UNION {[1..k -> A] : k \in 0..n}

\* Request contents: with and without spaces and slashes, cut before the
\* end of the request line or ended by a blank line.
ParseInputs ==
    {s \o t : s \in Strings({SP, "/", "a"}, MaxLine), t \in {<<>>, CRLF \o CRLF}}
    \cup {m.raw : m \in {n \in Messages : Len(n.raw) < BufferSize
                                          /\ Find(n.raw, <<NUL>>) = NPOS}}

\* The extensions defaultContentType knows.
KnownExtensions ==
    {<<"b", "m", "p">>, <<"c", "s", "s">>, <<"c", "s", "v">>, <<"g", "i", "f">>,
     <<"h", "t", "m">>, <<"h", "t", "m", "l">>, <<"i", "c", "o">>, <<"j", "p", "g">>,
     <<"j", "p", "e", "g">>, <<"j", "s">>, <<"j", "s", "o", "n">>, <<"p", "n", "g">>,
     <<"p", "d", "f">>, <<"p", "h", "p">>, <<"s", "v", "g">>, <<"t", "i", "f">>,
     <<"t", "i", "f", "f">>, <<"t", "x", "t">>}

\* Paths of the generic fetch: in no directory or in one, whose name may
\* hold a dot; a file name with no dot, one dot or two; a known extension,
\* an unknown one or an empty one.
TypeInputs ==
    {d \o b \o e :
        d \in {<<>>, <<"p", "u", "b", "/">>, <<"p", ".", "d", "/">>,
               <<"a", ".", "t", "x", "t", "/">>},
        b \in {<<>>, <<"i">>, <<"a", ".", "b">>},
        e \in {<<>>} \cup
              {<<".">> \o x :
                  x \in KnownExtensions \cup
                        {<<>>, <<"H", "T", "M", "L">>, <<"x", "y", "z">>,
                         <<"h", "t", "m", "l", "x">>, <<"j", "s", "o">>}}}

InitFn ==
    /\ overlap = FALSE
    /\ directory = <<>>
    /\ fs = InitialFs
    /\ running = TRUE
    /\ lastPost = [count |-> 0, msg |-> NoMessage, prev |-> <<>>]
    /\ \/ \E s \in ParseInputs :
            conn = [c \in Conns |-> [Idle EXCEPT !.pc = "parse", !.requestContents = s]]
       \/ \E p \in TypeInputs :
            conn = [c \in Conns |-> [Idle EXCEPT !.pc = "type", !.file = p]]

\* getPath and getMethod, as handleClient calls them.
Parse(c) ==
    /\ running
    /\ conn[c].pc = "parse"
    /\ LET path == getPath(conn[c].requestContents)
           method == getMethod(conn[c].requestContents)
       IN  IF path = OutOfRange \/ method = OutOfRange
           THEN /\ running' = FALSE
                /\ conn' = [conn EXCEPT ![c].pc = "terminated"]
           ELSE /\ running' = running
                /\ conn' = [conn EXCEPT ![c].pc = "parsed", ![c].path = path,
                                        ![c].method = method]
    /\ UNCHANGED <<directory, overlap, fs, lastPost>>

\* defaultContentType(getFileExtension(path)), as handleClient calls them.
Type(c) ==
    /\ running
    /\ conn[c].pc = "type"
    /\ conn' = [conn EXCEPT
          ![c].pc = "typed",
          ![c].contentType = defaultContentType(getFileExtension(conn[c].file))]
    /\ UNCHANGED <<directory, overlap, fs, running, lastPost>>

NextFn == \E c \in Conns : Parse(c) \/ Type(c)

SpecFn == InitFn /\ [][NextFn]_vars

(***************************************************************************)
(* The claims.  What a client is answered is read where send has returned: *)
(* the handler is at "close" and holds the bytes it sent in wire.          *)
(***************************************************************************)
Answered(c) == conn[c].pc = "close" /\ conn[c].sendOk

\* The message is received whole, with room for the zero byte that ends it.
FitsBuffer(m) == Len(m.raw) < BufferSize

\* A request line and blank line for the target files/<name>.
Begins(s, prefix) == Len(s) >= Len(prefix) /\ SubSeq(s, 1, Len(prefix)) = prefix

IsFilesRequest(m, method) == m.wf /\ m.method = method /\ Begins(m.target, FilesPrefix)

NameOf(m) == SubSeq(m.target, 7, Len(m.target))

IsPrefix(a, b) == Len(a) <= Len(b) /\ SubSeq(b, 1, Len(a)) = a

\* The configured directory as a node: the working directory by default.
RootDirectory ==
    IF directory = <<>> THEN [st |-> "dir", node |-> Cwd] ELSE Resolve(fs, directory)

\* What <name> leads to from the configured directory.
Named(name) ==
    IF RootDirectory.st # "dir" THEN [st |-> "fail", node |-> Root]
    ELSE Walk(fs, RootDirectory.node, SplitPath(name))

\* <name> names a file under the configured directory.
NamesFileUnder(name) ==
    /\ Named(name).st = "file"
    /\ IsPrefix(RootDirectory.node, Named(name).node)

\* The bytes of a message after its first blank line.
AfterBlankLine(raw) ==
    LET at == CHOOSE p \in 0..(Len(raw) - 4) :
                 /\ SubSeq(raw, p + 1, p + 4) = CRLF \o CRLF
                 /\ \A q \in 0..(p - 1) : SubSeq(raw, q + 1, q + 4) # CRLF \o CRLF
    IN  SubSeq(raw, at + 5, Len(raw))

\* The number a sequence of decimal digits stands for, or -1.
RECURSIVE DecimalValue(_)
DecimalValue(ds) ==
    LET last == ds[Len(ds)]
        v == CHOOSE k \in 0..9 :
                <<"0", "1", "2", "3", "4", "5", "6", "7", "8", "9">>[k + 1] = last
        front == DecimalValue(SubSeq(ds, 1, Len(ds) - 1))
    IN  IF ds = <<>> THEN 0
        ELSE IF last \notin {"0", "1", "2", "3", "4", "5", "6", "7", "8", "9"} THEN -1
        ELSE IF front < 0 THEN -1
        ELSE 10 * front + v

\* resp is a 200 response with the two headers, the content type given, a
\* Content-Length that is the decimal length of body, and the body.
IsOkResponse(resp, contentType, body) ==
    LET head == <<"H", "T", "T", "P", "/", "1", ".", "1", SP, "2", "0", "0", SP, "O", "K",
                  CR, LF>>
                \o <<"C", "o", "n", "t", "e", "n", "t", "-", "T", "y", "p", "e", ":", SP>>
                \o contentType
                \o <<CR, LF, "C", "o", "n", "t", "e", "n", "t", "-", "L", "e", "n", "g",
                     "t", "h", ":", SP>>
        tail == <<CR, LF, CR, LF>> \o body
        digits == SubSeq(resp, Len(head) + 1, Len(resp) - Len(tail))
    IN  /\ Len(resp) > Len(head) + Len(tail)
        /\ SubSeq(resp, 1, Len(head)) = head
        /\ SubSeq(resp, Len(resp) - Len(tail) + 1, Len(resp)) = tail
        /\ DecimalValue(digits) = Len(body)
        /\ (Len(digits) > 1 => digits[1] # "0")

NotFound ==
    <<"H", "T", "T", "P", "/", "1", ".", "1", SP, "4", "0", "4", SP, "N", "o", "t", SP, "F",
      "o", "u", "n", "d", CR, LF, CR, LF>>

NotImplemented ==
    <<"H", "T", "T", "P", "/", "1", ".", "1", SP, "5", "0", "1", SP, "N", "o", "t", SP, "I",
      "m", "p", "l", "e", "m", "e", "n", "t", "e", "d", CR, LF, CR, LF>>

UriTooLong ==
    <<"H", "T", "T", "P", "/", "1", ".", "1", SP, "4", "1", "4", SP, "U", "R", "I", SP, "T",
      "o", "o", SP, "L", "o", "n", "g", CR, LF, CR, LF>>

Created ==
    <<"H", "T", "T", "P", "/", "1", ".", "1", SP, "2", "0", "1", SP, "C", "r", "e", "a", "t",
      "e", "d", CR, LF, CR, LF>>

ServerError ==
    <<"H", "T", "T", "P", "/", "1", ".", "1", SP, "5", "0", "0", SP, "I", "n", "t", "e", "r",
      "n", "a", "l", SP, "S", "e", "r", "v", "e", "r", SP, "E", "r", "r", "o", "r", CR, LF,
      CR, LF>>

\* C1: a GET /files/<name> accepted after a POST /files/<name> with body B
\* completed, with no store in between, is answered 200 with body B, for
\* every name, body that fits the buffer, and directory.
C1_PostThenGetRoundTrip ==
    \A c \in Conns :
        (/\ ~overlap
         /\ Answered(c)
         /\ IsFilesRequest(conn[c].sent, GET)
         /\ lastPost.count > 0
         /\ conn[c].stores = lastPost.count
         /\ IsFilesRequest(lastPost.msg, POST)
         /\ FitsBuffer(lastPost.msg)
         /\ lastPost.msg.target = conn[c].sent.target)
        => IsOkResponse(conn[c].wire, OctetStream, lastPost.msg.body)

\* C2: GET /files/<f> for a file f that exists under the configured
\* directory is answered 200 with Content-Type application/octet-stream, the
\* length of f as Content-Length and the bytes of f as body.
C2_GetFileReturnsContents ==
    \A c \in Conns :
        (/\ ~overlap
         /\ Answered(c)
         /\ IsFilesRequest(conn[c].sent, GET)
         /\ NameOf(conn[c].sent) # <<>>
         /\ HasNoSlash(NameOf(conn[c].sent))
         /\ NamesFileUnder(NameOf(conn[c].sent)))
        => IsOkResponse(conn[c].wire, OctetStream,
                        fs.files[Named(NameOf(conn[c].sent)).node])

\* C3: GET /files/<missing>, where <missing> names no file under the
\* configured directory, is answered exactly the 404 status line and a
\* blank line.
C3_GetMissingFileIs404 ==
    \A c \in Conns :
        (/\ Answered(c)
         /\ IsFilesRequest(conn[c].sent, GET)
         /\ ~NamesFileUnder(NameOf(conn[c].sent)))
        => conn[c].wire = NotFound

\* C4: a request whose method is neither GET nor POST, and a POST whose
\* path does not start with files/, are answered 501 Not Implemented.
C4_OtherMethodsAre501 ==
    \A c \in Conns :
        (/\ Answered(c)
         /\ conn[c].sent.wf
         /\ FitsBuffer(conn[c].sent)
         /\ \/ conn[c].sent.method \notin {GET, POST}
            \/ /\ conn[c].sent.method = POST
               /\ ~Begins(conn[c].sent.target, FilesPrefix))
        => conn[c].wire = NotImplemented

\* C5: GET /user-agent with no User-Agent header is answered 200 with
\* Content-Type text/plain, Content-Length 0 and an empty body.
C5_NoUserAgentIsEmptyBody ==
    \A c \in Conns :
        (/\ Answered(c)
         /\ conn[c].sent.wf
         /\ conn[c].sent.method = GET
         /\ conn[c].sent.target = UserAgentPrefix
         /\ Find(conn[c].sent.raw, UserAgentMarker) = NPOS)
        => IsOkResponse(conn[c].wire, TextPlain, <<>>)

\* C6: a GET whose path is echo/<text> is answered 200 with Content-Type
\* text/plain, the byte length of <text> as Content-Length and <text> as
\* body: for the path the handler parsed, and for the <text> of a request
\* line GET /echo/<text> HTTP/1.1 that is received whole.
C6_EchoReturnsText ==
    \A c \in Conns :
        /\ (/\ conn[c].pc \in {"send", "close"}
            /\ conn[c].method = GET
            /\ Begins(conn[c].path, EchoPrefix))
           => IsOkResponse(conn[c].response, TextPlain,
                           SubSeq(conn[c].path, 6, Len(conn[c].path)))
        /\ (/\ conn[c].pc \in {"send", "close"}
            /\ conn[c].sent.wf
            /\ FitsBuffer(conn[c].sent)
            /\ conn[c].sent.method = GET
            /\ Begins(conn[c].sent.target, EchoPrefix))
           => /\ IsOkResponse(conn[c].response, TextPlain,
                              SubSeq(conn[c].sent.target, 6, Len(conn[c].sent.target)))
              /\ (conn[c].pc = "close" /\ conn[c].sendOk
                    => conn[c].wire = conn[c].response)

\* C6's case: GET /echo/abc has been answered with the response of the
\* specification's scenario.
C6_Witness ==
    \E c \in Conns :
        /\ Answered(c)
        /\ conn[c].sent = Request(GET, <<"e", "c", "h", "o", "/", "a", "b", "c">>, <<>>, <<>>)
        /\ conn[c].wire =
             <<"H", "T", "T", "P", "/", "1", ".", "1", SP, "2", "0", "0", SP, "O", "K", CR, LF,
               "C", "o", "n", "t", "e", "n", "t", "-", "T", "y", "p", "e", ":", SP,
               "t", "e", "x", "t", "/", "p", "l", "a", "i", "n", CR, LF,
               "C", "o", "n", "t", "e", "n", "t", "-", "L", "e", "n", "g", "t", "h", ":", SP,
               "3", CR, LF, CR, LF, "a", "b", "c">>

\* C7: POST /files/<name> is answered 201 or 500; when 201, the file at the
\* destination holds exactly the bytes of the raw request after its first
\* blank line.
C7_StoreWritesBody ==
    \A c \in Conns :
        (/\ ~overlap
         /\ conn[c].pc \in {"send", "close"}
         /\ IsFilesRequest(conn[c].sent, POST))
        => \/ conn[c].response = ServerError
           \/ /\ conn[c].response = Created
              /\ Resolve(fs, conn[c].file).st = "file"
              /\ fs.files[Resolve(fs, conn[c].file).node]
                    = AfterBlankLine(conn[c].sent.raw)

\* C8: a request larger than the receive buffer is answered 414 URI Too
\* Long and is not dispatched: no route is taken for it.
C8_OversizedIs414 ==
    \A c \in Conns :
        Len(conn[c].sent.raw) > BufferSize
        => /\ conn[c].route = "none"
           /\ (conn[c].pc \in {"send", "close"} => conn[c].response = UriTooLong)

\* C9: GET /files/<name> is answered 404 whenever the directory and <name>
\* lead to a file outside the configured directory.
C9_NoFileOutsideRoot ==
    \A c \in Conns :
        (/\ Answered(c)
         /\ IsFilesRequest(conn[c].sent, GET)
         /\ Resolve(fs, directory \o NameOf(conn[c].sent)).st = "file"
         /\ ~IsPrefix(RootDirectory.node,
                      Resolve(fs, directory \o NameOf(conn[c].sent)).node))
        => conn[c].wire = NotFound

\* A step of the handler of connection c.
HandlerStep(c) ==
    \/ Recv(c) \/ Dispatch(c) \/ CheckValid(c) \/ Fetch(c) \/ StoreMkdir(c)
    \/ StoreOpen(c) \/ StoreWrite(c) \/ Send(c) \/ Close(c)

\* C10: a handler whose recv returned can always go on until it has sent
\* one response and closed its connection once, whatever bytes it received
\* and whatever happened to the other connections.
C10_HandlerCompletes ==
    \A c \in Conns :
        /\ conn[c].pc \notin {"idle", "recv", "closed"} => ENABLED HandlerStep(c)
        /\ conn[c].pc = "close" => conn[c].sends = 1
        /\ conn[c].pc = "closed" => conn[c].closes = 1

\* C11: when a marker does not occur in the request contents, getPath,
\* getMethod, the User-Agent extraction and the body extraction return the
\* empty text, and none of them raises std::out_of_range, for every text
\* including the empty one.
C11_AbsentMarkerIsEmpty ==
    \A c \in Conns :
        LET rc == conn[c].requestContents
        IN  /\ conn[c].pc # "terminated"
            /\ conn[c].pc = "parsed" =>
                 /\ Find(rc, <<SP, "/">>) = NPOS => conn[c].path = <<>>
                 /\ Find(rc, <<SP>>) = NPOS => conn[c].method = <<>>
                 /\ Find(rc, UserAgentMarker) = NPOS
                      => parseBetween(rc, UserAgentMarker, CRLF) = <<>>
                 /\ Find(rc, CRLF \o CRLF) = NPOS
                      => parseFromThisToEnd(rc, CRLF \o CRLF) = <<>>

\* C12: when two connections POST to the same files/<name> at the same
\* time with bodies B1 and B2, the file holds exactly B1 or exactly B2 once
\* both handlers have stored, whatever the order of their steps.
C12_LastWriteWins ==
    \A c, d \in Conns :
        (/\ c # d
         /\ conn[c].pc \in {"send", "close"} /\ conn[d].pc \in {"send", "close"}
         /\ conn[c].route = "store" /\ conn[d].route = "store"
         /\ conn[c].response = Created /\ conn[d].response = Created
         /\ conn[c].sent.wf /\ conn[d].sent.wf
         /\ conn[c].node = conn[d].node)
        => fs.files[conn[c].node] \in {conn[c].sent.body, conn[d].sent.body}

\* The path of a GET that none of the four fixed routes takes.
IsGenericPath(path) ==
    /\ path # <<>>
    /\ ~Begins(path, <<"e", "c", "h", "o", "/">>)
    /\ ~Begins(path, <<"u", "s", "e", "r", "-", "a", "g", "e", "n", "t">>)
    /\ ~Begins(path, <<"f", "i", "l", "e", "s", "/">>)

\* C13: a GET whose path is not empty and starts with none of echo/,
\* user-agent, files/ is answered 200 with the contents found at the path
\* exactly when the path holds a '/' and opens for reading from the working
\* directory, and exactly the 404 status line and a blank line otherwise;
\* so a path with no '/' is answered 404 even when it names a file.
C13_GenericFetchIffSlashAndOpens ==
    \A c \in Conns :
        (/\ conn[c].pc \in {"send", "close"}
         /\ conn[c].method = GET
         /\ IsGenericPath(conn[c].path))
        => LET r == Resolve(fs, conn[c].path)
           IN  IF (\E i \in 1..Len(conn[c].path) : conn[c].path[i] = "/")
                  /\ r.st \in {"file", "dir"}
               THEN IsOkResponse(conn[c].response, conn[c].contentType,
                                 IF r.st = "file" THEN fs.files[r.node] ELSE <<>>)
               ELSE conn[c].response = NotFound

\* C13's case: GET /pub/i.html, a file of the working directory, has been
\* answered 200 with its four bytes.
C13_Witness ==
    \E c \in Conns :
        /\ Answered(c)
        /\ conn[c].sent =
             Request(GET, <<"p", "u", "b", "/", "i", ".", "h", "t", "m", "l">>, <<>>, <<>>)
        /\ IsOkResponse(conn[c].wire, <<"t", "e", "x", "t", "/", "h", "t", "m", "l">>,
                        <<"<", "p", ">", LF>>)

\* The last segment of a path: what follows its last slash.
LastSegment(path) ==
    LET slashes == {i \in 1..Len(path) : path[i] = "/"}
        last == CHOOSE i \in slashes \cup {0} : \A j \in slashes : j <= i
    IN  SubSeq(path, last + 1, Len(path))

\* The extension of a path: what follows the last dot of its last segment,
\* and nothing when that segment holds no dot.
ExtensionOf(path) ==
    LET seg == LastSegment(path)
        dots == {i \in 1..Len(seg) : seg[i] = "."}
        last == CHOOSE i \in dots : \A j \in dots : j <= i
    IN  IF dots = {} THEN <<>> ELSE SubSeq(seg, last + 1, Len(seg))

\* The fixed table of extensions and MIME types.
MimeTable ==
    {<<<<"b", "m", "p">>,
       <<"i", "m", "a", "g", "e", "/", "b", "m", "p">>>>,
     <<<<"c", "s", "s">>,
       <<"t", "e", "x", "t", "/", "c", "s", "s">>>>,
     <<<<"c", "s", "v">>,
       <<"t", "e", "x", "t", "/", "c", "s", "v">>>>,
     <<<<"g", "i", "f">>,
       <<"i", "m", "a", "g", "e", "/", "g", "i", "f">>>>,
     <<<<"h", "t", "m">>,
       <<"t", "e", "x", "t", "/", "h", "t", "m", "l">>>>,
     <<<<"h", "t", "m", "l">>,
       <<"t", "e", "x", "t", "/", "h", "t", "m", "l">>>>,
     <<<<"i", "c", "o">>,
       <<"i", "m", "a", "g", "e", "/", "v", "n", "d", ".", "m", "i", "c", "r", "o", "s", "o", "f", "t", ".", "i", "c", "o", "n">>>>,
     <<<<"j", "p", "g">>,
       <<"i", "m", "a", "g", "e", "/", "j", "p", "e", "g">>>>,
     <<<<"j", "p", "e", "g">>,
       <<"i", "m", "a", "g", "e", "/", "j", "p", "e", "g">>>>,
     <<<<"j", "s">>,
       <<"t", "e", "x", "t", "/", "j", "a", "v", "a", "s", "c", "r", "i", "p", "t">>>>,
     <<<<"j", "s", "o", "n">>,
       <<"a", "p", "p", "l", "i", "c", "a", "t", "i", "o", "n", "/", "j", "s", "o", "n">>>>,
     <<<<"p", "n", "g">>,
       <<"i", "m", "a", "g", "e", "/", "p", "n", "g">>>>,
     <<<<"p", "d", "f">>,
       <<"a", "p", "p", "l", "i", "c", "a", "t", "i", "o", "n", "/", "p", "d", "f">>>>,
     <<<<"p", "h", "p">>,
       <<"a", "p", "p", "l", "i", "c", "a", "t", "i", "o", "n", "/", "x", "-", "h", "t", "t", "p", "d", "-", "p", "h", "p">>>>,
     <<<<"s", "v", "g">>,
       <<"i", "m", "a", "g", "e", "/", "s", "v", "g", "+", "x", "m", "l">>>>,
     <<<<"t", "i", "f">>,
       <<"i", "m", "a", "g", "e", "/", "t", "i", "f", "f">>>>,
     <<<<"t", "i", "f", "f">>,
       <<"i", "m", "a", "g", "e", "/", "t", "i", "f", "f">>>>,
     <<<<"t", "x", "t">>,
       <<"t", "e", "x", "t", "/", "p", "l", "a", "i", "n">>>>}

\* The MIME type listed for an extension, application/octet-stream for an
\* extension that is not listed.
MimeOf(ext) ==
    IF \E row \in MimeTable : row[1] = ext
    THEN (CHOOSE row \in MimeTable : row[1] = ext)[2]
    ELSE <<"a", "p", "p", "l", "i", "c", "a", "t", "i", "o", "n", "/", "o", "c", "t", "e",
           "t", "-", "s", "t", "r", "e", "a", "m">>

C15_State ==
    \A c \in Conns :
        /\ conn[c].bytes_received = -1
             => /\ conn[c].pc = "closed" /\ conn[c].closes = 1
                /\ conn[c].sends = 0 /\ conn[c].wire = <<>>
                /\ conn[c].route = "none"
        /\ conn[c].sends <= 1
        /\ (conn[c].pc = "close" /\ running)
             => /\ conn[c].sends = 1
                /\ ENABLED Close(c)
                /\ ~ENABLED (Recv(c) \/ RecvFail(c) \/ Send(c))

\* What C15 says of a step of connection c: the step in which recv fails
\* changes no file or directory; the step after a response was built is
\* one call of send, after which the handler is at close whatever send
\* returned; and the step after that closes the connection.
C15_Step ==
    \A c \in Conns :
        /\ (conn[c].pc = "recv" /\ conn'[c].bytes_received = -1)
             => /\ fs' = fs
                /\ conn'[c].pc = "closed"
        /\ (conn[c].pc = "send" /\ conn'[c] # conn[c])
             => /\ conn'[c].pc = "close"
                /\ conn'[c].sends = conn[c].sends + 1
                /\ fs' = fs
        /\ (conn[c].pc = "close" /\ conn'[c] # conn[c])
             => /\ conn'[c].pc = "closed"
                /\ conn'[c].closes = 1
                /\ fs' = fs

\* C15: when recv fails the handler closes the connection and sends
\* nothing, dispatches nothing and touches no file; and once a response is
\* built, send is called once and the connection is closed whether send
\* succeeded or failed, with no second recv or send.
C15_TransportErrorsClose == [] C15_State /\ [][C15_Step]_vars

\* C15's case: the first connection was closed after its recv failed, and
\* the second handler is about to close after its send failed.
C15_Witness ==
    /\ conn[1].pc = "closed" /\ conn[1].bytes_received = -1
    /\ conn[2].pc = "close" /\ ~conn[2].sendOk /\ conn[2].sends = 1
    /\ conn[2].response # <<>>

\* The text rc is a request line <M> /<P> <V> CRLF ..., where M is its first
\* i characters and P the j characters after the slash, neither holding a
\* space.
IsRequestLine(rc, i, j) ==
    /\ i + 3 + j <= Len(rc)
    /\ rc[i + 1] = SP /\ rc[i + 2] = "/" /\ rc[i + 3 + j] = SP
    /\ \A k \in 1..i : rc[k] # SP
    /\ \A k \in (i + 3)..(i + 2 + j) : rc[k] # SP
    /\ \E k \in (i + 4 + j)..(Len(rc) - 1) : rc[k] = CR /\ rc[k + 1] = LF

\* C16: on a request line <M> /<P> <V> CRLF ... in which M and P hold no
\* space getMethod returns M and getPath returns P, without the slash and
\* empty for the target /; and on a text with no space getMethod returns
\* the whole text.
C16_MethodAndPath ==
    \A c \in Conns :
        LET rc == conn[c].requestContents
        IN  /\ conn[c].pc \in {"parsed", "terminated"} =>
                \A i, j \in 0..Len(rc) :
                    IsRequestLine(rc, i, j)
                    => /\ conn[c].pc = "parsed"
                       /\ conn[c].method = SubSeq(rc, 1, i)
                       /\ conn[c].path = SubSeq(rc, i + 3, i + 2 + j)
            /\ (conn[c].pc = "parsed" /\ \A k \in 1..Len(rc) : rc[k] # SP)
                 => conn[c].method = rc

\* C16's case: GET /echo/abc HTTP/1.1 CRLF CRLF has been parsed into GET
\* and echo/abc.
C16_Witness ==
    \E c \in Conns :
        /\ conn[c].pc = "parsed"
        /\ conn[c].requestContents =
             <<"G", "E", "T", SP, "/", "e", "c", "h", "o", "/", "a", "b", "c", SP, "H", "T",
               "T", "P", "/", "1", ".", "1", CR, LF, CR, LF>>
        /\ conn[c].method = <<"G", "E", "T">>
        /\ conn[c].path = <<"e", "c", "h", "o", "/", "a", "b", "c">>

\* The 200 status line followed by a blank line, the root's response.
OkBare ==
    <<"H", "T", "T", "P", "/", "1", ".", "1", SP, "2", "0", "0", SP, "O", "K", CR, LF, CR,
      LF>>

\* The text of resp between the Content-Type header's name and the CRLF
\* that ends it; nothing when resp is too short to hold one.
ContentTypeOf(resp) ==
    LET from == 32
        ends == {k \in from..Len(resp) : resp[k] = CR}
        end == CHOOSE k \in ends : \A j \in ends : k <= j
    IN  IF ends = {} THEN <<>> ELSE SubSeq(resp, from, end - 1)

\* resp is a 200 response with a Content-Type and a Content-Length header,
\* a blank line and a body as long as the Content-Length says.
HasOkShape(resp) ==
    \E k \in 1..(Len(resp) + 1) :
        IsOkResponse(resp, ContentTypeOf(resp), SubSeq(resp, k, Len(resp)))

\* C17: every response the server sends is a status line and a blank line
\* (200, 201, 404, 414, 500, 501), or 200 with a Content-Type and a
\* Content-Length header, a blank line and a body of that length; no
\* request is answered with zero bytes.
C17_ResponseShapes ==
    \A c \in Conns :
        (conn[c].pc = "close" /\ conn[c].sent.wf /\ FitsBuffer(conn[c].sent))
        => \/ conn[c].response
                \in {OkBare, Created, NotFound, UriTooLong, ServerError, NotImplemented}
           \/ HasOkShape(conn[c].response)

\* C18: no request removes a file or a directory, and a POST files/<name>
\* with body B2 that is stored after an earlier POST files/<name> with body
\* B1 completed leaves the file equal to B2 exactly, with nothing left of
\* B1.
C18_NoShrinkNoResidue ==
    /\ DOMAIN InitialFs.files \subseteq DOMAIN fs.files
    /\ InitialFs.dirs \subseteq fs.dirs
    /\ \A c \in Conns :
          (conn[c].pc \in {"send", "close"} /\ conn[c].response = Created)
          => conn[c].node \in DOMAIN fs.files
    /\ \A c \in Conns :
          (/\ ~overlap
           /\ conn[c].pc \in {"send", "close"}
           /\ conn[c].response = Created
           /\ IsFilesRequest(conn[c].sent, POST)
           /\ lastPost.count >= 2
           /\ lastPost.msg = conn[c].sent
           /\ lastPost.prev = conn[c].sent.target)
          => fs.files[conn[c].node] = conn[c].sent.body

\* The handler of connection c parsed a POST whose path starts with files/,
\* and the message it was sent, if it is a request, is such a POST.
IsStoring(c) ==
    /\ conn[c].method = <<"P", "O", "S", "T">>
    /\ Begins(conn[c].path, <<"f", "i", "l", "e", "s", "/">>)
    /\ conn[c].sent.wf => IsFilesRequest(conn[c].sent, <<"P", "O", "S", "T">>)

\* C19: only a POST whose path starts with files/ changes the filesystem:
\* no step of a connection that handles a GET, a POST to another path, a
\* request with another method or a failed recv changes the existence or
\* the contents of a file or a directory.
C19_OnlyStoreChangesFiles ==
    [][\A c \in Conns : (conn'[c] # conn[c] /\ ~IsStoring(c)) => fs' = fs]_vars

\* C19's case: PUT /files/a with body hello has been answered and the
\* filesystem is as it was when the server started.
C19_Witness ==
    \E c \in Conns :
        /\ conn[c].pc = "close"
        /\ conn[c].sent = Request(<<"P", "U", "T">>, <<"f", "i", "l", "e", "s", "/", "a">>,
                                  <<>>, <<"h", "e", "l", "l", "o">>)
        /\ fs = InitialFs

\* C20: a GET files/<name> handled while another connection handles a POST
\* files/<name> that replaces the contents C_old of a file that existed by
\* C_new is answered 200 with body C_old or with body C_new, never 404, an
\* empty body or a part of a body.
C20_GetDuringPostIsOldOrNew ==
    \A c, d \in Conns :
        (/\ overlap
         /\ c # d
         /\ conn[c].pc = "send"
         /\ IsFilesRequest(conn[c].sent, GET)
         /\ IsFilesRequest(conn[d].sent, POST)
         /\ conn[d].sent.target = conn[c].sent.target
         /\ conn[d].pc \in {"recv", "dispatch", "mkdir", "open", "write", "send", "close"}
         /\ \/ lastPost.count = 0
            \/ lastPost.count = 1 /\ lastPost.msg = conn[d].sent
                                  /\ conn[d].pc \in {"send", "close"}
         /\ NamesFileUnder(NameOf(conn[c].sent))
         /\ Named(NameOf(conn[c].sent)).node \in DOMAIN InitialFs.files)
        => \/ IsOkResponse(conn[c].response, OctetStream,
                           InitialFs.files[Named(NameOf(conn[c].sent)).node])
           \/ IsOkResponse(conn[c].response, OctetStream, conn[d].sent.body)

=============================================================================
